---- MODULE Spec2Model ----
(***************************************************************************)
(* The fourwings tile decoder of src/src/loaders/lib/parse-fourwings.ts:   *)
(* parseFourwings splits the tile buffer into one integer stream per       *)
(* sublayer and getCellTimeseries walks every stream record by record,     *)
(* building one feature per cell.  The two loops of getCellTimeseries are  *)
(* modelled step by step: pc is the position in the code, the other        *)
(* variables are the locals of the function.                               *)
(*                                                                         *)
(* A JavaScript value is the triple <<kind, n, d>>: the number n/d         *)
(* (kind "num", d > 0, lowest terms), NaN, +-Infinity ("inf", n the sign)  *)
(* or undefined (also what an array hole reads as).                        *)
(***************************************************************************)
EXTENDS Integers, Sequences, FiniteSets, TLC

\* ------------------------------------------------------------ constants
\* The stream holds unsigned 32-bit integers and the source's sentinel is the
\* largest of them, 4294967295.  TLC's integers are narrower, so the model's
\* unsigned integers are UintBits wide and the sentinel is again the largest.
UintBits == 8
NO_DATA_VALUE == 2 ^ UintBits - 1
SCALE_VALUE == 1
OFFSET_VALUE == 0
CELL_NUM_INDEX == 0
CELL_START_INDEX == 1
CELL_END_INDEX == 2
CELL_VALUES_START_INDEX == 3

\* ------------------------------------------------------------ bounds
MaxRecords == 2      \* records in the streams of a well-formed tile
MaxLen == 3          \* length of an arbitrary (possibly malformed) stream
MaxBands == 2        \* largest `sublayers` option (bands per frame)

\* ------------------------------------------------------------ JS numbers
Num(n) == <<"num", n, 1>>
NaN == <<"nan", 0, 1>>
Undefined == <<"undefined", 0, 1>>
Infinity(s) == <<"inf", s, 1>>

IsInt(v) == v[1] = "num" /\ v[3] = 1

Abs(n) == IF n < 0 THEN -n ELSE n
Sign(n) == IF n < 0 THEN -1 ELSE 1

RECURSIVE GCD(_, _)
GCD(a, b) == IF b = 0 THEN a ELSE GCD(b, a % b)

\* the number n/d in lowest terms with a positive denominator
Frac(n, d) ==
    LET g == GCD(Abs(n), Abs(d))
        s == Sign(d)
    IN <<"num", (s * n) \div g, (s * d) \div g>>

\* ToNumber: undefined becomes NaN
ToNumber(v) == IF v[1] = "undefined" THEN NaN ELSE v

JSAdd(x, y) ==
    LET a == ToNumber(x)
        b == ToNumber(y)
    IN IF a[1] = "nan" \/ b[1] = "nan" THEN NaN
       ELSE IF a[1] = "inf" /\ b[1] = "inf"
            THEN IF a[2] = b[2] THEN a ELSE NaN
       ELSE IF a[1] = "inf" THEN a
       ELSE IF b[1] = "inf" THEN b
       ELSE Frac(a[2] * b[3] + b[2] * a[3], a[3] * b[3])

JSNeg(x) ==
    LET a == ToNumber(x)
    IN IF a[1] = "nan" THEN NaN ELSE <<a[1], -a[2], a[3]>>

JSSub(x, y) == JSAdd(x, JSNeg(y))

JSMul(x, y) ==
    LET a == ToNumber(x)
        b == ToNumber(y)
    IN IF a[1] = "nan" \/ b[1] = "nan" THEN NaN
       ELSE IF a[1] = "inf" \/ b[1] = "inf"
            THEN IF a[2] = 0 \/ b[2] = 0 THEN NaN
                 ELSE Infinity(Sign(a[2]) * Sign(b[2]))
       ELSE Frac(a[2] * b[2], a[3] * b[3])

\* x / y; the divisors of this program are never negative zero
JSDiv(x, y) ==
    LET a == ToNumber(x)
        b == ToNumber(y)
    IN IF a[1] = "nan" \/ b[1] = "nan" THEN NaN
       ELSE IF b[1] = "inf"
            THEN IF a[1] = "inf" THEN NaN ELSE Num(0)
       ELSE IF b[2] = 0
            THEN IF a[2] = 0 THEN NaN ELSE Infinity(Sign(a[2]))
       ELSE IF a[1] = "inf" THEN Infinity(Sign(a[2]) * Sign(b[2]))
       ELSE Frac(a[2] * b[3], a[3] * b[2])

\* x < y; any comparison with NaN is false
JSLt(x, y) ==
    LET a == ToNumber(x)
        b == ToNumber(y)
    IN IF a[1] = "nan" \/ b[1] = "nan" THEN FALSE
       ELSE IF a[1] = "inf" THEN a[2] < 0 /\ ~(b[1] = "inf" /\ b[2] < 0)
       ELSE IF b[1] = "inf" THEN b[2] > 0
       ELSE a[2] * b[3] < b[2] * a[3]

\* x >= y
JSGe(x, y) ==
    LET a == ToNumber(x)
        b == ToNumber(y)
    IN IF a[1] = "nan" \/ b[1] = "nan" THEN FALSE ELSE ~JSLt(a, b)

\* arr[idx] for a 0-based index that may be negative, NaN or past the end
ArrayGet(arr, idx) ==
    IF IsInt(idx) /\ idx[2] >= 0 /\ idx[2] < Len(arr)
    THEN arr[idx[2] + 1] ELSE Undefined

\* new Array(n): n holes
NewArray(n) == [x \in 1..n |-> Undefined]

\* arr[idx] = v for a 0-based integer idx >= 0; a write past the end grows
\* the array and leaves holes between
ArraySet(arr, idx, v) ==
    [x \in 1..(IF idx + 1 > Len(arr) THEN idx + 1 ELSE Len(arr)) |->
        IF x = idx + 1 THEN v
        ELSE IF x <= Len(arr) THEN arr[x] ELSE Undefined]

\* Math.floor(j / sublayers) for integers j >= 0, sublayers >= 1
Floor(j, n) == j \div n


\* ------------------------------------------------------------ state
VARIABLES
    opts,           \* options.fourwings, fixed during the call
    pbf,            \* per sublayer: what decoding its slice of the buffer gives
    pc,             \* position in the code
    intArrays,      \* argument of getCellTimeseries
    features,       \* the object `features`: cell key -> feature
    keyOrder,       \* the keys of `features` in creation order
    subLayerIndex, i, indexInCell, cellNum, startFrame, endFrame, startIndex,
    numCellValues,  \* locals of the loops
    numValues,      \* numValuesBySubLayer[subLayerIndex]
    j,
    result,         \* the returned sequence of features
    firstSeen       \* history: cell tokens in the order they were first read

vars == <<opts, pbf, pc, intArrays, features, keyOrder, subLayerIndex, i,
          indexInCell, cellNum, startFrame, endFrame, startIndex,
          numCellValues, numValues, j, result, firstSeen>>

locals == <<subLayerIndex, i, indexInCell, cellNum, startFrame, endFrame,
            startIndex, numCellValues, numValues, j>>

\* ------------------------------------------------------------ helpers
noDataValue == Num(NO_DATA_VALUE)

Unset == <<>>

sublayersLength == Len(intArrays)

subLayerIntArray == intArrays[subLayerIndex + 1]

tileStartFrame == Num(opts.tileStartFrame)

timeRangeStartFrame == JSSub(Num(opts.timeRange[1]), tileStartFrame)

timeRangeEndFrame == JSSub(Num(opts.timeRange[2]), tileStartFrame)

\* the early return left out
MissingTimeRangeIgnored(o) == FALSE

\* !initialTimeRange
MissingTimeRange(o) == ~o.hasInitialTimeRange

\* (endFrame - startFrame + 1) * sublayers
NumCellValues(start, end, sublayers) ==
    JSMul(JSAdd(JSSub(end, start), Num(1)), Num(sublayers))

\* the presence check left out: every record makes the feature anew
HasFeatureNever(fs, key) == FALSE

\* !features[cellNum] is false exactly for the keys already present
HasFeature(fs, key) == key \in DOMAIN fs

\* the feature literal; row, col, geometry and cellId come from the cell
\* helpers, which are functions of the cell index and the tile alone
NewFeature(key, n) ==
    [ cellNum |-> key,
      col |-> <<"col", key>>,
      row |-> <<"row", key>>,
      geometry |-> <<"Polygon", key>>,
      cellId |-> <<"id", key>>,
      values |-> [s \in 1..n |-> Unset],
      dates |-> [s \in 1..n |-> Unset],
      startOffsets |-> NewArray(n),
      initialValues |-> NewArray(n) ]

\* the offset added instead of subtracted
TransformPlus(cellValue, scale, offset) ==
    JSAdd(JSMul(cellValue, Num(scale)), Num(offset))

\* cellValue * scale - offset
Transform(cellValue, scale, offset) ==
    JSSub(JSMul(cellValue, Num(scale)), Num(offset))

\* j + startFrame >= timeRangeStartFrame && j + startFrame < timeRangeEndFrame
InTimeRange(jj, start, from, to) ==
    /\ JSGe(JSAdd(Num(jj), start), from)
    /\ JSLt(JSAdd(Num(jj), start), to)

\* position in the dense arrays of the sample at offset jj of its record
ValueIndex(jj, sublayers) == Floor(jj, sublayers)

\* the argument of getIntervalTimestamp, which stands for the timestamp
DateOf(start, jj) == JSAdd(JSAdd(start, tileStartFrame), Num(jj))

\* the jump without the - 1 that makes up for the i++ of the loop
NextRecordIndexSkip(start, n) == JSAdd(JSAdd(Num(start), n), Num(1))

\* the value of i when the next iteration starts:
\* i = startIndex + numCellValues - 1, then i++
NextRecordIndex(start, n) ==
    JSAdd(JSSub(JSAdd(Num(start), n), Num(1)), Num(1))

\* integer-like keys up to 2^32 - 2 are array indices: all the unsigned
\* integers but the largest, which is NO_DATA_VALUE
IsArrayIndex(key) == IsInt(key) /\ key[2] >= 0 /\ key[2] < NO_DATA_VALUE

RECURSIVE Ascending(_)
Ascending(keys) ==
    IF keys = {} THEN <<>>
    ELSE LET m == CHOOSE k \in keys : \A o \in keys : k[2] <= o[2]
         IN <<m>> \o Ascending(keys \ {m})

RECURSIVE Select(_, _)
Select(seq, keys) ==
    IF seq = <<>> THEN <<>>
    ELSE (IF seq[1] \in keys THEN <<seq[1]>> ELSE <<>>) \o Select(Tail(seq), keys)

\* the features in creation order, as a Map would list them
ObjectValuesInsertion(fs, order) ==
    LET keys == Select(order, DOMAIN fs)
    IN [x \in 1..Len(keys) |-> fs[keys[x]]]

\* Object.values(features): array-index keys in ascending order, then the
\* other keys in creation order
ObjectValues(fs, order) ==
    LET idx == {k \in DOMAIN fs : IsArrayIndex(k)}
        keys == Ascending(idx) \o Select(order, DOMAIN fs \ idx)
    IN [x \in 1..Len(keys) |-> fs[keys[x]]]


\* ------------------------------------------------------------ inputs
Cells == {0, 1}

\* [startFrame, endFrame] tokens of a record: one frame, two frames, none
FramePairs == {<<1, 1>>, <<1, 2>>, <<2, 1>>}

\* const tileStartFrame = getIntervalFrame(bufferedStartDate)
TileStartFrames == {1}

\* the frames of initialTimeRange.start and initialTimeRange.end
TimeRange == <<1, 2>>

\* the samples of a record repeat one of these
Patterns == {<<3, 7>>, <<NO_DATA_VALUE, 5>>, <<NO_DATA_VALUE>>}

ScaleOffsets == {<<SCALE_VALUE, OFFSET_VALUE>>, <<2, 1>>}

Tokens == 0..4

RECURSIVE Concat(_)
Concat(seqs) == IF seqs = <<>> THEN <<>> ELSE seqs[1] \o Concat(Tail(seqs))

\* one record [cellIndex, startFrame, endFrame, k values] of the stream format
Record(cell, frames, pattern, bands) ==
    LET k == (frames[2] - frames[1] + 1) * bands
    IN <<cell, frames[1], frames[2]>> \o
       [x \in 1..k |-> pattern[((x - 1) % Len(pattern)) + 1]]

RecordLists == UNION {[1..m -> Cells \X FramePairs] : m \in 0..MaxRecords}

\* the records from..to of the list r, one after the other
Stream(r, from, to, pattern, bands) ==
    Concat([x \in 1..(to - from + 1) |->
              Record(r[from + x - 1][1], r[from + x - 1][2], pattern, bands)])

\* the streams of one or two sublayers, made of the whole records of r
WellFormedArrays(r, pattern, bands) ==
    { <<Stream(r, 1, Len(r), pattern, bands)>> } \cup
    { <<Stream(r, 1, k, pattern, bands), Stream(r, k + 1, Len(r), pattern, bands)>> :
        k \in 0..Len(r) }

\* one stream of any tokens, whole records or not
ArbitraryArrays ==
    { <<st>> : st \in UNION {[1..m -> Tokens] : m \in 1..MaxLen} }

\* bytes of one varint
VarintBytes(v) ==
    IF v < 128 THEN 1 ELSE IF v < 16384 THEN 2 ELSE IF v < 2097152 THEN 3
    ELSE IF v < 268435456 THEN 4 ELSE 5

RECURSIVE PayloadBytes(_)
PayloadBytes(st) ==
    IF st = <<>> THEN 0 ELSE VarintBytes(st[1]) + PayloadBytes(Tail(st))

\* the entry of buffersLength for a stream: nothing for an empty one, else
\* the tag byte, the length prefix and the packed varints
BufferLength(st) ==
    IF st = <<>> THEN 0
    ELSE 1 + VarintBytes(PayloadBytes(st)) + PayloadBytes(st)

Options(bands, agg, so, tsf, arrays) ==
    [ hasBuffersLength |-> TRUE,
      buffersLength |-> [s \in 1..Len(arrays) |-> BufferLength(arrays[s])],
      hasInitialTimeRange |-> TRUE,
      timeRange |-> TimeRange,
      sublayers |-> bands,
      aggregationOperation |-> agg,
      scale |-> so[1],
      offset |-> so[2],
      tileStartFrame |-> tsf,
      hasTile |-> TRUE,
      intervalKnown |-> TRUE ]

Decoded(arrays) == [s \in 1..Len(arrays) |-> [ok |-> TRUE, data |-> arrays[s]]]

Configs == (0..MaxBands) \X {"sum", "avg"} \X ScaleOffsets \X TileStartFrames

\* a call with a complete configuration, over whole records or any tokens
FullInput ==
    \E c \in Configs :
        \E a \in ArbitraryArrays \cup
                 UNION { WellFormedArrays(r, p, c[1]) :
                           <<r, p>> \in RecordLists \X Patterns } :
            /\ opts = Options(c[1], c[2], c[3], c[4], a)
            /\ pbf = Decoded(a)

\* calls with a part of the configuration missing, or with a slice that
\* does not decode
EdgeArrays == { <<<<0, 1, 1, 3>>>>, <<<<>>, <<1, 1, 2, 5, 7>>>>, <<<<>>>>, <<<<>>, <<>>>> }

EdgeInput ==
    \E f \in BOOLEAN \X BOOLEAN \X BOOLEAN \X BOOLEAN \X BOOLEAN \X BOOLEAN,
       a \in EdgeArrays :
        /\ opts = [Options(1, "sum", <<SCALE_VALUE, OFFSET_VALUE>>, 1, a) EXCEPT
                     !.hasBuffersLength = f[1],
                     !.buffersLength = IF f[2] THEN @ ELSE <<>>,
                     !.hasInitialTimeRange = f[3],
                     !.hasTile = f[4],
                     !.intervalKnown = f[5]]
        /\ pbf = [s \in 1..Len(a) |->
                    [ok |-> f[6] \/ a[s] = <<>>, data |-> a[s]]]

Init ==
    /\ FullInput \/ EdgeInput
    /\ pc = "parseFourwings"
    /\ intArrays = <<>>
    /\ features = <<>>
    /\ keyOrder = <<>>
    /\ subLayerIndex = 0
    /\ i = Num(0)
    /\ indexInCell = 0
    /\ cellNum = Num(0)
    /\ startFrame = Num(0)
    /\ endFrame = Num(0)
    /\ startIndex = 0
    /\ numCellValues = Num(0)
    /\ numValues = 0
    /\ j = 0
    /\ result = <<>>
    /\ firstSeen = <<>>


\* ------------------------------------------------------------ parseFourwings
\* lines 190-208: the early return, then one stream per entry of
\* buffersLength; a slice that does not decode throws out of the call
ParseFourwings ==
    /\ pc = "parseFourwings"
    /\ IF ~opts.hasBuffersLength \/ Len(opts.buffersLength) = 0
       THEN /\ pc' = "done"
            /\ result' = <<>>
            /\ UNCHANGED intArrays
       ELSE IF \E s \in 1..Len(opts.buffersLength) :
                  opts.buffersLength[s] # 0 /\ ~pbf[s].ok
       THEN /\ pc' = "error"
            /\ UNCHANGED <<result, intArrays>>
       ELSE /\ pc' = "getCellTimeseries"
            /\ intArrays' = [s \in 1..Len(opts.buffersLength) |->
                               IF opts.buffersLength[s] = 0 THEN <<>>
                               ELSE pbf[s].data]
            /\ UNCHANGED result
    /\ UNCHANGED <<opts, pbf, features, keyOrder, locals, firstSeen>>

\* ------------------------------------------------------------ getCellTimeseries
\* subLayerIntArray[idx]
StreamValue(idx) ==
    ArrayGet([x \in 1..Len(subLayerIntArray) |-> Num(subLayerIntArray[x])], idx)

\* lines 29-63: no initialTimeRange returns []; an interval missing from
\* CONFIG_BY_INTERVAL or a missing tile throws a TypeError
Enter ==
    /\ pc = "getCellTimeseries"
    /\ IF MissingTimeRange(opts)
       THEN pc' = "done" /\ result' = <<>>
       ELSE IF ~opts.intervalKnown \/ ~opts.hasTile
       THEN pc' = "error" /\ UNCHANGED result
       ELSE pc' = "sublayer" /\ UNCHANGED result
    /\ features' = <<>>
    /\ keyOrder' = <<>>
    /\ subLayerIndex' = 0
    /\ UNCHANGED <<opts, pbf, intArrays, i, indexInCell, cellNum, startFrame,
                   endFrame, startIndex, numCellValues, numValues, j, firstSeen>>

\* lines 64-75: the next sublayer and its fresh locals
NextSublayer ==
    /\ pc = "sublayer"
    /\ subLayerIndex < sublayersLength
    /\ pc' = "scan"
    /\ cellNum' = Num(0)
    /\ startFrame' = Num(0)
    /\ endFrame' = Num(0)
    /\ startIndex' = 0
    /\ indexInCell' = 0
    /\ i' = Num(0)
    /\ UNCHANGED <<opts, pbf, intArrays, features, keyOrder, subLayerIndex,
                   numCellValues, numValues, j, result, firstSeen>>

\* line 179
Return ==
    /\ pc = "sublayer"
    /\ ~(subLayerIndex < sublayersLength)
    /\ pc' = "done"
    /\ result' = ObjectValues(features, keyOrder)
    /\ UNCHANGED <<opts, pbf, intArrays, features, keyOrder, locals, firstSeen>>

\* line 75: i < subLayerIntArray.length fails
EndOfStream ==
    /\ pc = "scan"
    /\ ~JSLt(i, Num(Len(subLayerIntArray)))
    /\ pc' = "sublayer"
    /\ subLayerIndex' = subLayerIndex + 1
    /\ UNCHANGED <<opts, pbf, intArrays, features, keyOrder, i, indexInCell,
                   cellNum, startFrame, endFrame, startIndex, numCellValues,
                   numValues, j, result, firstSeen>>

\* lines 77-80 and 175
ReadCellNum ==
    /\ pc = "scan"
    /\ JSLt(i, Num(Len(subLayerIntArray)))
    /\ indexInCell = CELL_NUM_INDEX
    /\ LET value == StreamValue(i)
       IN /\ startIndex' = i[2] + CELL_VALUES_START_INDEX
          /\ cellNum' = value
          /\ firstSeen' = IF \E x \in 1..Len(firstSeen) : firstSeen[x] = value
                          THEN firstSeen ELSE Append(firstSeen, value)
    /\ indexInCell' = indexInCell + 1
    /\ i' = JSAdd(i, Num(1))
    /\ UNCHANGED <<opts, pbf, pc, intArrays, features, keyOrder, subLayerIndex,
                   startFrame, endFrame, numCellValues, numValues, j, result>>

\* lines 81-83 and 175
ReadStartFrame ==
    /\ pc = "scan"
    /\ JSLt(i, Num(Len(subLayerIntArray)))
    /\ indexInCell = CELL_START_INDEX
    /\ LET value == StreamValue(i)
       IN startFrame' = JSSub(value, tileStartFrame)
    /\ indexInCell' = indexInCell + 1
    /\ i' = JSAdd(i, Num(1))
    /\ UNCHANGED <<opts, pbf, pc, intArrays, features, keyOrder, subLayerIndex,
                   cellNum, endFrame, startIndex, numCellValues, numValues, j,
                   result, firstSeen>>

\* lines 84-120: the end frame, the size of the record and the feature of
\* the cell if no record made it yet
ReadEndFrame ==
    /\ pc = "scan"
    /\ JSLt(i, Num(Len(subLayerIntArray)))
    /\ indexInCell = CELL_END_INDEX
    /\ LET value == StreamValue(i)
           end == JSSub(value, tileStartFrame)
       IN /\ endFrame' = end
          /\ numCellValues' = NumCellValues(startFrame, end, opts.sublayers)
    /\ numValues' = 0
    /\ IF ~HasFeature(features, cellNum)
       THEN /\ features' = (cellNum :> NewFeature(cellNum, sublayersLength))
                            @@ features
            /\ keyOrder' = Append(keyOrder, cellNum)
       ELSE UNCHANGED <<features, keyOrder>>
    /\ j' = 0
    /\ pc' = "values"
    /\ UNCHANGED <<opts, pbf, intArrays, subLayerIndex, i, indexInCell, cellNum,
                   startFrame, startIndex, result, firstSeen>>


\* lines 124-137: the arrays of this sublayer, made at its first sample
WithSublayer(f, sub, n, start) ==
    IF f.values[sub] = Unset
    THEN [f EXCEPT !.values[sub] = NewArray(n),
                   !.dates[sub] = NewArray(n),
                   !.startOffsets[sub] = start,
                   !.initialValues[sub] = Num(0)]
    ELSE f

\* lines 138-147: the sample and its date at their place in the arrays
WithValue(f, sub, at, value, date) ==
    [f EXCEPT !.values[sub] = ArraySet(@, at, value),
              !.dates[sub] = ArraySet(@, at, date)]

\* lines 154-156
WithInitialValue(f, sub, value) ==
    [f EXCEPT !.initialValues[sub] = JSAdd(@, value)]

\* lines 162-169
Aggregate(f, sub, operation, count) ==
    IF operation = "avg"
    THEN [f EXCEPT !.initialValues[sub] = JSDiv(@, Num(count))]
    ELSE f

\* lines 121-161: one turn of the loop over the samples of the record
ProcessValue ==
    /\ pc = "values"
    /\ JSLt(Num(j), numCellValues)
    /\ LET cellValue == StreamValue(Num(j + startIndex))
           sub == subLayerIndex + 1
           value == Transform(cellValue, opts.scale, opts.offset)
           inRange == InTimeRange(j, startFrame, timeRangeStartFrame,
                                  timeRangeEndFrame)
           f0 == features[cellNum]
           f1 == WithSublayer(f0, sub, numCellValues[2], startFrame)
           f2 == WithValue(f1, sub, ValueIndex(j, opts.sublayers), value,
                           DateOf(startFrame, j))
           f3 == IF inRange THEN WithInitialValue(f2, sub, value) ELSE f2
       IN IF cellValue # noDataValue
          THEN /\ features' = [features EXCEPT ![cellNum] = f3]
               /\ numValues' = IF inRange THEN numValues + 1 ELSE numValues
          ELSE UNCHANGED <<features, numValues>>
    /\ j' = j + 1
    /\ UNCHANGED <<opts, pbf, pc, intArrays, keyOrder, subLayerIndex, i,
                   indexInCell, cellNum, startFrame, endFrame, startIndex,
                   numCellValues, result, firstSeen>>

\* lines 162-175: the average, then the jump past the record
FinishRecord ==
    /\ pc = "values"
    /\ ~JSLt(Num(j), numCellValues)
    /\ features' = [features EXCEPT ![cellNum] =
                      Aggregate(@, subLayerIndex + 1,
                                opts.aggregationOperation, numValues)]
    /\ i' = NextRecordIndex(startIndex, numCellValues)
    /\ indexInCell' = 0
    /\ pc' = "scan"
    /\ UNCHANGED <<opts, pbf, intArrays, keyOrder, subLayerIndex, cellNum,
                   startFrame, endFrame, startIndex, numCellValues, numValues,
                   j, result, firstSeen>>

Next ==
    \/ ParseFourwings
    \/ Enter
    \/ NextSublayer
    \/ Return
    \/ EndOfStream
    \/ ReadCellNum
    \/ ReadStartFrame
    \/ ReadEndFrame
    \/ ProcessValue
    \/ FinishRecord

Spec == Init /\ [][Next]_vars


\* ------------------------------------------------------------ the stream format
\* The record grammar, read off the format and not off the scan: a stream is
\* well formed when it is whole records [cell, start, end, k values] with
\* k = (end - start + 1) * bands.
RECURSIVE WellFormed(_, _)
WellFormed(st, bands) ==
    \/ st = <<>>
    \/ /\ Len(st) >= CELL_VALUES_START_INDEX
       /\ LET k == (st[3] - st[2] + 1) * bands
          IN /\ k >= 0
             /\ Len(st) >= CELL_VALUES_START_INDEX + k
             /\ WellFormed(SubSeq(st, CELL_VALUES_START_INDEX + k + 1, Len(st)),
                           bands)

\* the records of a well-formed stream
RECURSIVE RecordsOf(_, _)
RecordsOf(st, bands) ==
    IF st = <<>> THEN <<>>
    ELSE LET k == (st[3] - st[2] + 1) * bands
         IN <<[cell |-> st[1], start |-> st[2], end |-> st[3],
               samples |-> SubSeq(st, 4, 3 + k)]>>
            \o RecordsOf(SubSeq(st, 4 + k, Len(st)), bands)

AllWellFormed == \A s \in 1..Len(intArrays) : WellFormed(intArrays[s], opts.sublayers)

\* the call went through the scan of getCellTimeseries and returned
Scanned ==
    /\ pc = "done"
    /\ opts.hasBuffersLength
    /\ Len(opts.buffersLength) > 0
    /\ opts.hasInitialTimeRange

IndexOf(seq, v) == CHOOSE x \in 1..Len(seq) : seq[x] = v

\* the cell tokens of the records of all streams
RecordCells ==
    UNION { {Num(RecordsOf(intArrays[s], opts.sublayers)[x].cell) :
               x \in 1..Len(RecordsOf(intArrays[s], opts.sublayers))} :
            s \in 1..Len(intArrays) }

\* ------------------------------------------------------------ C1
\* C1 as stated: the returned features are in the order in which their cell
\* indices were first read as the first token of a record.
C1_FirstSeenOrder ==
    pc = "done" =>
        \A a, b \in 1..Len(result) :
            (a < b) <=> (IndexOf(firstSeen, result[a].cellNum)
                            < IndexOf(firstSeen, result[b].cellNum))

\* C1 amended: the returned features are in ascending order of cell index,
\* for every cell index that is an array index (below the largest unsigned
\* integer); the features of the other keys follow them.
C1_AscendingOrder ==
    pc = "done" =>
        \A a, b \in 1..Len(result) :
            a < b =>
                /\ IsArrayIndex(result[b].cellNum) => IsArrayIndex(result[a].cellNum)
                /\ IsArrayIndex(result[a].cellNum) /\ IsArrayIndex(result[b].cellNum)
                     => result[a].cellNum[2] < result[b].cellNum[2]

\* two cells first read in descending order, returned in ascending order
C1_Witness ==
    /\ Scanned
    /\ Len(result) = 2
    /\ firstSeen = <<Num(1), Num(0)>>
    /\ result[1].cellNum = Num(0)

\* ------------------------------------------------------------ C5
\* C5: for well-formed streams the result holds exactly one feature for each
\* cell index that is the first token of a record: none missing, none twice,
\* none for any other integer.
C5_OneFeaturePerCell ==
    Scanned /\ AllWellFormed =>
        /\ {result[x].cellNum : x \in 1..Len(result)} = RecordCells
        /\ Len(result) = Cardinality(RecordCells)

\* two cells, one of them with no sample but the sentinel
C5_Witness ==
    /\ Scanned
    /\ AllWellFormed
    /\ Len(result) = 2
    /\ \A s \in 1..Len(intArrays) : result[2].values[s] = Unset
    /\ \E s \in 1..Len(intArrays) :
         \E x \in 1..Len(RecordsOf(intArrays[s], opts.sublayers)) :
            LET r == RecordsOf(intArrays[s], opts.sublayers)[x]
            IN /\ Num(r.cell) = result[2].cellNum
               /\ Len(r.samples) > 0
               /\ \A y \in 1..Len(r.samples) : r.samples[y] = NO_DATA_VALUE


\* ------------------------------------------------------------ C6
\* one turn of the loop over the samples: the step that moves j on
SampleStep == pc = "values" /\ pc' = "values" /\ j' = j + 1

\* what C6 says of one such step
C6_Step ==
        SampleStep =>
          LET raw == StreamValue(Num(j + startIndex))
              sub == subLayerIndex + 1
              stored == JSSub(JSMul(raw, Num(opts.scale)), Num(opts.offset))
              before == IF features[cellNum].values[sub] = Unset THEN Num(0)
                        ELSE features[cellNum].initialValues[sub]
              after == features'[cellNum].initialValues[sub]
          IN IF raw = Num(NO_DATA_VALUE)
             THEN features' = features /\ numValues' = numValues
             ELSE /\ features'[cellNum].values[sub][(j \div opts.sublayers) + 1]
                       = stored
                  /\ \/ after = before /\ numValues' = numValues
                     \/ after = JSAdd(before, stored) /\ numValues' = numValues + 1

\* C6: a sample equal to noDataValue writes nothing: the features and the
\* in-range counter stay as they are.  Any other sample is stored as
\* raw * scale - offset at position floor(j / bandsPerFrame) of
\* values[sublayer], and what it adds to initialValues[sublayer], when it adds
\* anything, is that same raw * scale - offset, counted once.
C6_SampleWritten == [][C6_Step]_vars

\* the sample 3 of a record was stored as 3 * 2 - 1 and added to the aggregate
C6_Witness ==
    /\ pc = "values"
    /\ j = 1
    /\ opts.scale = 2
    /\ opts.offset = 1
    /\ numValues = 1
    /\ StreamValue(Num(startIndex)) = Num(3)
    /\ features[cellNum].values[subLayerIndex + 1][1] = Num(5)
    /\ features[cellNum].initialValues[subLayerIndex + 1] = Num(5)

\* ------------------------------------------------------------ C9
NoDuplicates(seq) == \A x, y \in 1..Len(seq) : seq[x] = seq[y] => x = y

Static(f) == <<f.cellNum, f.geometry, f.cellId, f.row, f.col>>

\* what C9 says of one step of the scan
C9_Step ==
        pc \in {"scan", "values"} =>
          /\ NoDuplicates(keyOrder')
          /\ \A k \in DOMAIN features :
                /\ k \in DOMAIN features'
                /\ Static(features'[k]) = Static(features[k])
                /\ k # cellNum => features'[k] = features[k]
                /\ \A t \in 1..sublayersLength :
                      t # subLayerIndex + 1 =>
                        /\ features'[k].values[t] = features[k].values[t]
                        /\ features'[k].dates[t] = features[k].dates[t]
                        /\ features'[k].startOffsets[t] = features[k].startOffsets[t]
                        /\ features'[k].initialValues[t] = features[k].initialValues[t]

\* C9: a feature is made once, and a step of the scan of sublayer s at the
\* cell c leaves every other cell's feature as it is, and of the feature of c
\* its geometry, cellId, row, col and cellNum and the values, dates,
\* startOffsets and initialValues of every sublayer but s.
C9_OnlyOwnEntries == [][C9_Step]_vars

\* a record of the second sublayer has written its samples into the feature
\* that a record of the first sublayer made and filled
C9_Witness ==
    /\ pc = "values"
    /\ subLayerIndex = 1
    /\ keyOrder = <<cellNum>>
    /\ features[cellNum].values[1] # Unset
    /\ features[cellNum].values[2] # Unset

\* ------------------------------------------------------------ C7
NoLengths == ~opts.hasBuffersLength \/ Len(opts.buffersLength) = 0

AllZeroLengths ==
    /\ ~NoLengths
    /\ \A s \in 1..Len(opts.buffersLength) : opts.buffersLength[s] = 0

EmptyAndNoError == pc # "error" /\ (pc = "done" => result = <<>>) /\ features = <<>>

\* C7 as stated: no buffersLength, only zero lengths or no initialTimeRange
\* give an empty result and no error, whatever the buffer and the rest of the
\* configuration.
C7_AlwaysEmpty ==
    NoLengths \/ AllZeroLengths \/ ~opts.hasInitialTimeRange => EmptyAndNoError

\* C7 amended: an absent or empty buffersLength gives an empty result and no
\* error whatever the rest; only zero lengths do when initialTimeRange is
\* absent or the interval is known and the tile present; an absent
\* initialTimeRange does when every slice of non-zero length decodes.
C7_EmptyWhenConfigured ==
    /\ NoLengths => EmptyAndNoError
    /\ AllZeroLengths /\ (~opts.hasInitialTimeRange \/ (opts.intervalKnown /\ opts.hasTile))
         => EmptyAndNoError
    /\ ( /\ ~opts.hasInitialTimeRange
         /\ ~NoLengths
         /\ \A s \in 1..Len(opts.buffersLength) :
               opts.buffersLength[s] # 0 => pbf[s].ok )
         => EmptyAndNoError

\* a call without initialTimeRange over a buffer that holds a record returned
C7_Witness ==
    /\ pc = "done"
    /\ ~opts.hasInitialTimeRange
    /\ ~opts.hasTile
    /\ Len(intArrays) = 2
    /\ Len(intArrays[2]) > 0
    /\ result = <<>>


\* ------------------------------------------------------------ C2
\* the places <<record, sample>> of the samples of cell c in stream s that
\* are not the sentinel
SamplePlaces(c, s) ==
    LET recs == RecordsOf(intArrays[s], opts.sublayers)
    IN { pl \in UNION { {<<x, y>> : y \in 1..Len(recs[x].samples)} :
                          x \in 1..Len(recs) } :
           /\ recs[pl[1]].cell = c
           /\ recs[pl[1]].samples[pl[2]] # NO_DATA_VALUE }

\* those whose frame startFrame + floor(j / bandsPerFrame), relative to the
\* tile, is in [timeRangeStartFrame, timeRangeEndFrame)
PlacesInRange(c, s) ==
    LET recs == RecordsOf(intArrays[s], opts.sublayers)
    IN { pl \in SamplePlaces(c, s) :
           LET f == recs[pl[1]].start - opts.tileStartFrame
                      + ((pl[2] - 1) \div opts.sublayers)
           IN /\ opts.timeRange[1] - opts.tileStartFrame <= f
              /\ f < opts.timeRange[2] - opts.tileStartFrame }

RECURSIVE SumOfPlaces(_, _)
SumOfPlaces(places, s) ==
    IF places = {} THEN 0
    ELSE LET pl == CHOOSE x \in places : TRUE
             raw == RecordsOf(intArrays[s], opts.sublayers)[pl[1]].samples[pl[2]]
         IN raw * opts.scale - opts.offset + SumOfPlaces(places \ {pl}, s)

ExpectedInitialValue(c, s) ==
    LET places == PlacesInRange(c, s)
    IN IF opts.aggregationOperation = "avg"
       THEN JSDiv(Num(SumOfPlaces(places, s)), Num(Cardinality(places)))
       ELSE Num(SumOfPlaces(places, s))

\* C2: for every cell and every sublayer with a sample of the cell that is
\* not the sentinel, initialValues[sublayer] is the sum, or the mean, of
\* raw * scale - offset over exactly those of its samples whose frame
\* startFrame + floor(j / bandsPerFrame) is in the time range; the mean of no
\* sample is NaN.
C2_Aggregate ==
    Scanned /\ AllWellFormed =>
        \A x \in 1..Len(result), s \in 1..Len(intArrays) :
            IsArrayIndex(result[x].cellNum)
            /\ SamplePlaces(result[x].cellNum[2], s) # {}
              => result[x].initialValues[s]
                   = ExpectedInitialValue(result[x].cellNum[2], s)

\* ------------------------------------------------------------ C3
\* C3: values[sublayer] and dates[sublayer] of a cell are as long as each
\* other and as long as the frames endFrame - startFrame + 1 of the record of
\* that cell in that sublayer, whatever bandsPerFrame is.
C3_OneEntryPerFrame ==
    Scanned /\ AllWellFormed =>
        \A x \in 1..Len(result), s \in 1..Len(intArrays) :
            result[x].values[s] # Unset =>
                /\ Len(result[x].values[s]) = Len(result[x].dates[s])
                /\ LET recs == RecordsOf(intArrays[s], opts.sublayers)
                       own == {y \in 1..Len(recs) :
                                 Num(recs[y].cell) = result[x].cellNum}
                   IN \A y \in own :
                        Cardinality(own) = 1 =>
                          Len(result[x].values[s]) = recs[y].end - recs[y].start + 1

\* ------------------------------------------------------------ C4
\* C4: a call over a stream that is not whole records returns no feature.
C4_MalformedReturnsNothing ==
    pc = "done" /\ ~AllWellFormed => result = <<>>

\* ------------------------------------------------------------ C8
\* C8: a call with bandsPerFrame = 0 assembles no record and returns no
\* feature.
C8_ZeroBandsReturnsNothing ==
    opts.sublayers = 0 /\ pc = "done" => result = <<>>

\* ------------------------------------------------------------ C10
\* C10: when a record has been passed, the cursor is beyond the cell token
\* of that record, so that no position is read as a header token twice and
\* the scan ends.
C10_CursorMovesOn ==
    pc = "scan" /\ indexInCell = CELL_NUM_INDEX /\ IsInt(i) =>
        i[2] > startIndex - CELL_VALUES_START_INDEX

====
